---- MODULE Spec2Model ----
(***************************************************************************)
(* Model of src/lambda/state-manager.py: the Lambda handler that reads and *)
(* writes one document-state record per file_name in a DynamoDB table.     *)
(*                                                                         *)
(* Python values are records tagged by their type (field t); DynamoDB      *)
(* attribute values are records named after the DynamoDB type descriptor   *)
(* (S, N, M, NULL), as the boto3 resource layer puts them on the wire;     *)
(* JSON values of the response body are records tagged by field j.         *)
(***************************************************************************)
EXTENDS Bags, FiniteSets, Integers, Sequences, TLC

VARIABLES
    store,      \* the DynamoDB table: file_name -> item, or NoItem
    clock,      \* what datetime.utcnow() returns now
    pending,    \* bag of invocations that passed validation and wait on the store
    last,       \* the invocation that returned most recently (event, response, ...)
    writer      \* per file_name: the UPDATE whose upsert the store applied last

vars == <<store, clock, pending, last, writer>>

----------------------------------------------------------------------------
(* Bounds *)

MaxClock == 2       \* utcnow() ranges over 1..MaxClock
MaxPending == 2     \* invocations running in parallel

----------------------------------------------------------------------------
(* Python values *)

Missing == [t |-> "missing"]              \* the key is not in the body
PyNone == [t |-> "None"]
PyStr(s) == [t |-> "str", s |-> s]
PyInt(n) == [t |-> "int", n |-> n]
Decimal(n) == [t |-> "Decimal", n |-> n]
PyDict(m) == [t |-> "dict", m |-> m]
EmptyMap == [k \in {} |-> PyNone]

\* bool(v) as Python computes it for the values above
Truthy(v) ==
    CASE v.t = "None" -> FALSE
      [] v.t = "str" -> v.s # ""
      [] v.t = "int" -> v.n # 0
      [] v.t = "Decimal" -> v.n # 0
      [] v.t = "dict" -> DOMAIN v.m # {}
      [] OTHER -> FALSE

\* dict.get(key, default); the body is a record whose absent keys hold Missing
Get(body, key, default) ==
    IF body[key] = Missing THEN default ELSE body[key]

LowerCase == <<"a", "b", "c", "d", "e", "f", "g", "h", "i", "j", "k", "l", "m",
               "n", "o", "p", "q", "r", "s", "t", "u", "v", "w", "x", "y", "z">>
UpperCase == <<"A", "B", "C", "D", "E", "F", "G", "H", "I", "J", "K", "L", "M",
               "N", "O", "P", "Q", "R", "S", "T", "U", "V", "W", "X", "Y", "Z">>

UpperOf == [i \in DOMAIN LowerCase |-> UpperCase[i]]
Letter == [c \in {LowerCase[i] : i \in DOMAIN LowerCase} |->
              CHOOSE i \in DOMAIN LowerCase : LowerCase[i] = c]

UpperChar(c) == IF c \in DOMAIN Letter THEN UpperOf[Letter[c]] ELSE c

\* str.upper() on a string given as its sequence of characters
Upper(s) == [i \in DOMAIN s |-> UpperChar(s[i])]

\* datetime.isoformat() of the clock reading
IsoFormat(n) == PyStr("2025-01-01T00:00:0" \o ToString(n))

----------------------------------------------------------------------------
(* boto3 resource layer: Python value <-> DynamoDB attribute value *)

SerializeScalar(v) ==
    CASE v.t = "str" -> [S |-> v.s]
      [] v.t = "int" -> [N |-> v.n]
      [] v.t = "Decimal" -> [N |-> v.n]
      [] OTHER -> [NULL |-> TRUE]

Serialize(v) ==
    IF v.t = "dict"
    THEN [M |-> [k \in DOMAIN v.m |-> SerializeScalar(v.m[k])]]
    ELSE SerializeScalar(v)

DeserializeScalar(a) ==
    CASE "S" \in DOMAIN a -> PyStr(a.S)
      [] "N" \in DOMAIN a -> Decimal(a.N)
      [] OTHER -> PyNone

Deserialize(a) ==
    IF "M" \in DOMAIN a
    THEN PyDict([k \in DOMAIN a.M |-> DeserializeScalar(a.M[k])])
    ELSE DeserializeScalar(a)

\* the item as table.get_item / update_item hand it back to Python
DeserializeItem(item) == [k \in DOMAIN item |-> Deserialize(item[k])]

\* item.get(key, default) on a deserialized item
ItemGet(item, key, default) ==
    IF key \in DOMAIN item THEN item[key] ELSE default

----------------------------------------------------------------------------
(* json.dumps *)

JsonSerializableScalar(v) == v.t \in {"None", "str", "int", "bool"}

JsonSerializable(v) ==
    IF v.t = "dict"
    THEN \A k \in DOMAIN v.m : JsonSerializableScalar(v.m[k])
    ELSE JsonSerializableScalar(v)

JsonScalar(v) ==
    CASE v.t = "str" -> [j |-> "string", s |-> v.s]
      [] v.t = "int" -> [j |-> "number", n |-> v.n]
      [] v.t = "bool" -> [j |-> "bool", b |-> v.b]
      [] OTHER -> [j |-> "null"]

ToJson(v) ==
    IF v.t = "dict"
    THEN [j |-> "object", m |-> [k \in DOMAIN v.m |-> JsonScalar(v.m[k])]]
    ELSE JsonScalar(v)

PyTrue == [t |-> "bool", b |-> TRUE]
PyFalse == [t |-> "bool", b |-> FALSE]

\* json.dumps of a dict of Python values: the JSON object, or TypeError
JsonDumps(d) ==
    IF \A k \in DOMAIN d : JsonSerializable(d[k])
    THEN [raised |-> FALSE, json |-> [k \in DOMAIN d |-> ToJson(d[k])]]
    ELSE [raised |-> TRUE, error |-> <<"Object of type Decimal is not JSON serializable">>]

----------------------------------------------------------------------------
(* The DynamoDB table *)

FileNames == {"doc1.pdf"}

NoItem == [k \in {} |-> [NULL |-> TRUE]]     \* no item under the key

\* mutant of GetItem: the lookup uses another key and never finds the item
GetItem_wrong_key(tbl, key) == [ResponseMetadata |-> TRUE]

\* mutant of GetItem: an absent key answers with an empty 'Item'
GetItem_empty_item(tbl, key) ==
    [Item |-> DeserializeItem(tbl[key]), ResponseMetadata |-> TRUE]

\* table.get_item(Key={'file_name': key}): the response carries 'Item' only
\* when the key holds an item
GetItem(tbl, key) ==
    IF tbl[key] # NoItem
    THEN [Item |-> DeserializeItem(tbl[key]), ResponseMetadata |-> TRUE]
    ELSE [ResponseMetadata |-> TRUE]

SetAttributes == {"state", "updated_at", "metadata"}

\* mutant of UpdatedItem: the new metadata is merged into the stored map
UpdatedItem_merge(old, key, new_state, timestamp, metadata) ==
    LET oldM == IF "metadata" \in DOMAIN old THEN old.metadata.M ELSE EmptyMap
        newM == Serialize(metadata).M
    IN  [a \in DOMAIN old \cup {"file_name"} \cup SetAttributes |->
            CASE a = "state" -> Serialize(new_state)
              [] a = "updated_at" -> Serialize(timestamp)
              [] a = "metadata" ->
                    [M |-> [k \in DOMAIN oldM \cup DOMAIN newM |->
                               IF k \in DOMAIN newM THEN newM[k] ELSE oldM[k]]]
              [] a = "file_name" -> [S |-> key]
              [] OTHER -> old[a]]

\* the item after UpdateExpression 'SET #state = :state, updated_at =
\* :timestamp, metadata = :metadata' on the item under key (created if absent)
UpdatedItem(old, key, new_state, timestamp, metadata) ==
    [a \in DOMAIN old \cup {"file_name"} \cup SetAttributes |->
        CASE a = "state" -> Serialize(new_state)
          [] a = "updated_at" -> Serialize(timestamp)
          [] a = "metadata" -> Serialize(metadata)
          [] a = "file_name" -> [S |-> key]
          [] OTHER -> old[a]]

\* mutant of UpdateItem: the write is conditional on the key being free, an
\* existing item wins
UpdateItem_if_absent(tbl, key, new_state, timestamp, metadata) ==
    LET item == IF tbl[key] = NoItem
                THEN UpdatedItem(tbl[key], key, new_state, timestamp, metadata)
                ELSE tbl[key]
    IN  [table |-> [tbl EXCEPT ![key] = item],
         response |-> [Attributes |-> DeserializeItem(item)]]

\* table.update_item(..., ReturnValues='ALL_NEW'): the table afterwards and
\* the response with the new item as 'Attributes'
UpdateItem(tbl, key, new_state, timestamp, metadata) ==
    LET item == UpdatedItem(tbl[key], key, new_state, timestamp, metadata)
    IN  [table |-> [tbl EXCEPT ![key] = item],
         response |-> [Attributes |-> DeserializeItem(item)]]

----------------------------------------------------------------------------
(* The handler.  An outcome is what a function call produced: either it     *)
(* returned a response or it raised; table is the table afterwards and      *)
(* calls the store calls made, in order.                                    *)

Returned(response, tbl, calls) ==
    [raised |-> FALSE, response |-> response, table |-> tbl, calls |-> calls]

Raised(error, tbl, calls) ==
    [raised |-> TRUE, error |-> error, table |-> tbl, calls |-> calls]

ErrorBody(text) == [error |-> [j |-> "string", text |-> text]]

\* get_state(file_name); fault: table.get_item raises
get_state(file_name, tbl, fault) ==
    IF fault THEN Raised(<<"ClientError">>, tbl, <<"get_item">>)
    ELSE
    LET response == GetItem(tbl, file_name.s)
        found == JsonDumps([file_name |-> ItemGet(response.Item, "file_name", PyNone),
                            state |-> ItemGet(response.Item, "state", PyNone),
                            metadata |-> ItemGet(response.Item, "metadata", PyDict(EmptyMap)),
                            updated_at |-> ItemGet(response.Item, "updated_at", PyNone),
                            exists |-> PyTrue])
        notfound == JsonDumps([file_name |-> file_name,
                               state |-> PyNone,
                               metadata |-> PyDict(EmptyMap),
                               exists |-> PyFalse])
        dumped == IF "Item" \in DOMAIN response THEN found ELSE notfound
    IN  IF dumped.raised
        THEN Raised(dumped.error, tbl, <<"get_item">>)
        ELSE Returned([statusCode |-> 200, body |-> dumped.json], tbl, <<"get_item">>)

\* update_state(file_name, new_state, metadata); timestamp is what
\* datetime.utcnow().isoformat() gave; fault: table.update_item raises
update_state(file_name, new_state, metadata, timestamp, tbl, fault) ==
    IF fault THEN Raised(<<"ClientError">>, tbl, <<"update_item">>)
    ELSE
    LET updated == UpdateItem(tbl, file_name.s, new_state, timestamp, metadata)
        updated_item == updated.response.Attributes
        dumped == JsonDumps([file_name |-> ItemGet(updated_item, "file_name", PyNone),
                             state |-> ItemGet(updated_item, "state", PyNone),
                             metadata |-> ItemGet(updated_item, "metadata", PyDict(EmptyMap)),
                             updated_at |-> ItemGet(updated_item, "updated_at", PyNone),
                             success |-> PyTrue])
    IN  IF dumped.raised
        THEN Raised(dumped.error, updated.table, <<"update_item">>)
        ELSE Returned([statusCode |-> 200, body |-> dumped.json],
                      updated.table, <<"update_item">>)

GET == <<"G", "E", "T">>
UPDATE == <<"U", "P", "D", "A", "T", "E">>

\* the routing with another default for new_state and another set of
\* rejected new_state values; the mutants of Route below are instances
RouteVariant(event, default_state, rejected) ==
    IF event.malformed THEN [kind |-> "raise", error |-> <<"JSONDecodeError">>]
    ELSE
    LET body == event.body
        op == Get(body, "operation", PyStr(<<>>))
        file_name == Get(body, "file_name", PyNone)
        new_state == Get(body, "new_state", default_state)
        metadata == Get(body, "metadata", PyDict(EmptyMap))
    IN  IF op.t # "str"
        THEN [kind |-> "raise", error |-> <<"object has no attribute 'upper'">>]
        ELSE IF ~Truthy(file_name)
        THEN [kind |-> "return",
              response |-> [statusCode |-> 400,
                            body |-> ErrorBody(<<"file_name is required">>)]]
        ELSE IF Upper(op.s) = GET
        THEN [kind |-> "get_state", file_name |-> file_name]
        ELSE IF Upper(op.s) = UPDATE
        THEN IF new_state \in rejected
             THEN [kind |-> "return",
                   response |-> [statusCode |-> 400,
                                 body |-> ErrorBody(<<"new_state is required for UPDATE operation">>)]]
             ELSE [kind |-> "update_state", file_name |-> file_name,
                   new_state |-> new_state, metadata |-> metadata]
        ELSE [kind |-> "return",
              response |-> [statusCode |-> 400,
                            body |-> ErrorBody(<<"Invalid operation: ">> \o Upper(op.s)
                                               \o <<". Use GET or UPDATE">>)]]

\* mutant of Route: a missing new_state defaults to the first stage
Route_default_state(event) ==
    RouteVariant(event, PyStr("PENDING_OCR"), {PyNone, PyStr("")})

\* mutant of Route: only the four documented stage labels are accepted
Route_labels(event) ==
    RouteVariant(event, PyNone, {PyNone, PyStr(""), PyStr("ARCHIVED")})

\* mutant of Route: update_state is entered without the new_state check
Route_no_check(event) == RouteVariant(event, PyNone, {})

\* lambda_handler up to the call of get_state / update_state: what the
\* handler does next
Route(event) ==
    IF event.malformed THEN [kind |-> "raise", error |-> <<"JSONDecodeError">>]
    ELSE
    LET body == event.body
        op == Get(body, "operation", PyStr(<<>>))
        file_name == Get(body, "file_name", PyNone)
        new_state == Get(body, "new_state", PyNone)
        metadata == Get(body, "metadata", PyDict(EmptyMap))
    IN  IF op.t # "str"
        THEN [kind |-> "raise", error |-> <<"object has no attribute 'upper'">>]
        ELSE IF ~Truthy(file_name)
        THEN [kind |-> "return",
              response |-> [statusCode |-> 400,
                            body |-> ErrorBody(<<"file_name is required">>)]]
        ELSE IF Upper(op.s) = GET
        THEN [kind |-> "get_state", file_name |-> file_name]
        ELSE IF Upper(op.s) = UPDATE
        THEN IF ~Truthy(new_state)
             THEN [kind |-> "return",
                   response |-> [statusCode |-> 400,
                                 body |-> ErrorBody(<<"new_state is required for UPDATE operation">>)]]
             ELSE [kind |-> "update_state", file_name |-> file_name,
                   new_state |-> new_state, metadata |-> metadata]
        ELSE [kind |-> "return",
              response |-> [statusCode |-> 400,
                            body |-> ErrorBody(<<"Invalid operation: ">> \o Upper(op.s)
                                               \o <<". Use GET or UPDATE">>)]]

\* the except clause of lambda_handler: whatever was raised becomes a 500
Caught(outcome) ==
    IF outcome.raised
    THEN Returned([statusCode |-> 500, body |-> ErrorBody(outcome.error)],
                  outcome.table, outcome.calls)
    ELSE outcome

\* lambda_handler(event, context) as a whole, against table tbl at time now
lambda_handler(event, tbl, now, fault) ==
    LET r == Route(event)
    IN  CASE r.kind = "return" -> Returned(r.response, tbl, <<>>)
          [] r.kind = "raise" -> Caught(Raised(r.error, tbl, <<>>))
          [] r.kind = "get_state" -> Caught(get_state(r.file_name, tbl, fault))
          [] r.kind = "update_state" ->
                Caught(update_state(r.file_name, r.new_state, r.metadata,
                                    IsoFormat(now), tbl, fault))

----------------------------------------------------------------------------
(* Requests *)

OperationValues ==
    {Missing, PyInt(5), PyStr(GET), PyStr(<<"g", "e", "t">>), PyStr(UPDATE),
     PyStr(<<"U", "p", "d", "a", "t", "e">>), PyStr(<<"d", "e", "l", "e", "t", "e">>)}

FileNameValues == {Missing, PyStr("")} \cup {PyStr(f) : f \in FileNames}

NewStateValues ==
    {Missing, PyStr(""), PyStr("PENDING_OCR"), PyStr("COMPLETED"), PyStr("ARCHIVED")}

MetadataValues ==
    {Missing, PyDict([a |-> PyStr("1")]), PyDict([b |-> PyStr("2")]),
     PyDict([pages |-> PyInt(5)])}

Bodies ==
    [operation : OperationValues, file_name : FileNameValues,
     new_state : NewStateValues, metadata : MetadataValues]

\* an event whose body string is not JSON
MalformedEvent ==
    [malformed |-> TRUE,
     body |-> [operation |-> Missing, file_name |-> Missing,
               new_state |-> Missing, metadata |-> Missing]]

\* the request shapes, for the handler taken one invocation at a time: the
\* fields of UPDATE vary with the operations that read them
AllEvents ==
    {[malformed |-> FALSE, body |-> b] :
        b \in {c \in Bodies :
                  /\ c.metadata # PyDict([b |-> PyStr("2")])
                  /\ \/ (c.operation.t = "str" /\ Upper(c.operation.s) = UPDATE)
                     \/ (c.new_state = Missing /\ c.metadata = Missing)}}
    \cup {MalformedEvent}

Event(operation, file_name, new_state, metadata) ==
    [malformed |-> FALSE,
     body |-> [operation |-> operation, file_name |-> file_name,
               new_state |-> new_state, metadata |-> metadata]]

\* the requests sent in parallel: reads and writes of one file_name, the
\* writes differing in every field, going forwards and backwards
ParallelEvents ==
    {Event(PyStr(<<"g", "e", "t">>), PyStr("doc1.pdf"), Missing, Missing),
     Event(PyStr(UPDATE), PyStr("doc1.pdf"), PyStr("PENDING_OCR"), PyDict([a |-> PyStr("1")])),
     Event(PyStr(UPDATE), PyStr("doc1.pdf"), PyStr("COMPLETED"), PyDict([b |-> PyStr("2")])),
     Event(PyStr(UPDATE), PyStr("doc1.pdf"), PyStr("COMPLETED"), PyDict([pages |-> PyInt(5)])),
     Event(PyStr(UPDATE), PyStr("doc1.pdf"), PyStr("PENDING_OCR"), Missing)}

----------------------------------------------------------------------------
(* State *)

NoLast == [done |-> FALSE]
NoWriter == [applied |-> FALSE]

\* the record of an invocation that has returned
Completed(event, outcome, tbl, fault) ==
    [done |-> TRUE, event |-> event, response |-> outcome.response,
     calls |-> outcome.calls, mutated |-> outcome.table # tbl, fault |-> fault]

\* the record of the upsert the store applied
Applied(call, outcome) ==
    [applied |-> TRUE, new_state |-> call.new_state, metadata |-> call.metadata,
     timestamp |-> call.timestamp, response |-> outcome.response]

Init ==
    /\ store = [f \in FileNames |-> NoItem]
    /\ clock = 1
    /\ pending = EmptyBag
    /\ last = NoLast
    /\ writer = [f \in FileNames |-> NoWriter]

\* time passes
Tick ==
    /\ clock < MaxClock
    /\ clock' = clock + 1
    /\ UNCHANGED <<store, pending, last, writer>>

\* lambda_handler enters get_state
InvokeGet(event) ==
    LET r == Route(event)
    IN  /\ r.kind = "get_state"
        /\ BagCardinality(pending) < MaxPending
        /\ pending' = pending (+) SetToBag({[kind |-> "get_state", event |-> event,
                                             file_name |-> r.file_name]})
        /\ UNCHANGED <<store, clock, last, writer>>

\* lambda_handler enters update_state, which reads the clock
InvokeUpdate(event) ==
    LET r == Route(event)
    IN  /\ r.kind = "update_state"
        /\ BagCardinality(pending) < MaxPending
        /\ pending' = pending (+) SetToBag({[kind |-> "update_state", event |-> event,
                                             file_name |-> r.file_name,
                                             new_state |-> r.new_state,
                                             metadata |-> r.metadata,
                                             timestamp |-> IsoFormat(clock)]})
        /\ UNCHANGED <<store, clock, last, writer>>

\* get_state calls table.get_item and the handler returns
GetState(call, fault) ==
    LET outcome == Caught(get_state(call.file_name, store, fault))
    IN  /\ call.kind = "get_state"
        /\ pending' = pending (-) SetToBag({call})
        /\ last' = Completed(call.event, outcome, store, fault)
        /\ UNCHANGED <<store, clock, writer>>

\* update_state calls table.update_item and the handler returns
UpdateState(call, fault) ==
    LET outcome == Caught(update_state(call.file_name, call.new_state, call.metadata,
                                       call.timestamp, store, fault))
    IN  /\ call.kind = "update_state"
        /\ pending' = pending (-) SetToBag({call})
        /\ store' = outcome.table
        /\ last' = Completed(call.event, outcome, store, fault)
        /\ writer' = IF fault THEN writer
                     ELSE [writer EXCEPT ![call.file_name.s] = Applied(call, outcome)]
        /\ UNCHANGED clock

Next ==
    \/ Tick
    \/ \E event \in ParallelEvents : InvokeGet(event)
    \/ \E event \in ParallelEvents : InvokeUpdate(event)
    \/ \E call \in BagToSet(pending), fault \in BOOLEAN : GetState(call, fault)
    \/ \E call \in BagToSet(pending), fault \in BOOLEAN : UpdateState(call, fault)

Spec == Init /\ [][Next]_vars

\* one invocation at a time: the whole of lambda_handler in one step
Handle(event, fault) ==
    LET r == Route(event)
        reaches == r.kind \in {"get_state", "update_state"}
        outcome == lambda_handler(event, store, clock, fault)
    IN  /\ fault => reaches
        /\ store' = outcome.table
        /\ last' = Completed(event, outcome, store, fault)
        /\ writer' = IF r.kind = "update_state" /\ ~fault
                     THEN [writer EXCEPT ![r.file_name.s] =
                              Applied([new_state |-> r.new_state, metadata |-> r.metadata,
                                       timestamp |-> IsoFormat(clock)], outcome)]
                     ELSE writer
        /\ UNCHANGED <<clock, pending>>

NextSeq ==
    \/ Tick
    \/ \E event \in AllEvents, fault \in BOOLEAN : Handle(event, fault)

SpecSeq == Init /\ [][NextSeq]_vars

----------------------------------------------------------------------------
(* Vocabulary of the properties, read off the request and the response *)

Body == last.event.body
Status == last.response.statusCode

\* the operation is a string that upper-cases to name
OperationIs(body, name) ==
    body.operation.t = "str" /\ Upper(body.operation.s) = name

\* the request carries a usable file_name
CarriesFileName(body) == body.file_name.t = "str" /\ body.file_name.s # ""

\* the request is a well-formed GET / UPDATE that reached the store
IsGet == last.done /\ ~last.event.malformed /\ OperationIs(Body, GET)
            /\ CarriesFileName(Body)
IsUpdate == last.done /\ ~last.event.malformed /\ OperationIs(Body, UPDATE)
               /\ CarriesFileName(Body)

JsonTrue == [j |-> "bool", b |-> TRUE]
JsonFalse == [j |-> "bool", b |-> FALSE]
JsonNull == [j |-> "null"]
JsonEmptyObject == [j |-> "object", m |-> [k \in {} |-> JsonNull]]

HasError == DOMAIN last.response.body = {"error"}

\* C1: a GET that reads the record left by an UPDATE that answered 200
\* answers 200 with exists true and the state, metadata and updated_at that
\* UPDATE wrote, the same values the UPDATE's response reported.
C1_ReadAfterWrite ==
    (IsGet /\ ~last.fault /\ writer[Body.file_name.s].applied
       /\ writer[Body.file_name.s].response.statusCode = 200) =>
        LET w == writer[Body.file_name.s]
            got == last.response.body
        IN  /\ Status = 200
            /\ DOMAIN got = {"file_name", "state", "metadata", "updated_at", "exists"}
            /\ got.exists = JsonTrue
            /\ got.file_name = ToJson(Body.file_name)
            /\ got.state = ToJson(w.new_state)
            /\ got.metadata = ToJson(w.metadata)
            /\ got.updated_at = ToJson(w.timestamp)
            /\ got.state = w.response.body.state
            /\ got.metadata = w.response.body.metadata
            /\ got.updated_at = w.response.body.updated_at

\* a GET has read what an UPDATE with metadata wrote while another UPDATE waits
C1_Witness ==
    /\ IsGet /\ ~last.fault /\ Status = 200
    /\ writer[Body.file_name.s].applied
    /\ writer[Body.file_name.s].response.statusCode = 200
    /\ writer[Body.file_name.s].metadata # PyDict(EmptyMap)
    /\ \E c \in BagToSet(pending) : c.kind = "update_state"

\* C2: the stored record is exactly what the last applied UPDATE carried:
\* its state, its updated_at and its metadata with no key of an earlier
\* UPDATE, the empty map when the request had no metadata; the record exists
\* from the first UPDATE on.
C2_FullReplace ==
    /\ \A f \in FileNames :
          IF writer[f].applied
          THEN /\ DOMAIN store[f] = {"file_name", "state", "updated_at", "metadata"}
               /\ store[f].state = [S |-> writer[f].new_state.s]
               /\ store[f].updated_at = [S |-> writer[f].timestamp.s]
               /\ DOMAIN store[f].metadata = {"M"}
               /\ DOMAIN store[f].metadata.M = DOMAIN writer[f].metadata.m
               /\ \A k \in DOMAIN writer[f].metadata.m :
                     /\ (writer[f].metadata.m[k].t = "str" =>
                            store[f].metadata.M[k] = [S |-> writer[f].metadata.m[k].s])
                     /\ (writer[f].metadata.m[k].t = "int" =>
                            store[f].metadata.M[k] = [N |-> writer[f].metadata.m[k].n])
          ELSE store[f] = NoItem
    /\ (IsUpdate /\ last.calls = <<"update_item">> /\ ~last.fault
          /\ Body.metadata = Missing) =>
            store[Body.file_name.s].metadata = [M |-> [k \in {} |-> JsonNull]]

\* an UPDATE with key b has replaced a record whose metadata had another key
C2_Witness ==
    /\ IsUpdate /\ Status = 200 /\ last.mutated
    /\ Body.metadata = PyDict([b |-> PyStr("2")])
    /\ store["doc1.pdf"].metadata = [M |-> [b |-> [S |-> "2"]]]

\* C3: a GET of a file_name that no UPDATE has written answers 200 with
\* exactly file_name, state null, metadata {} and exists false (no
\* updated_at), and leaves the key without a record.
C3_GetAbsent ==
    (IsGet /\ ~last.fault /\ ~writer[Body.file_name.s].applied) =>
        /\ Status = 200
        /\ last.response.body = [file_name |-> ToJson(Body.file_name),
                                 state |-> JsonNull,
                                 metadata |-> JsonEmptyObject,
                                 exists |-> JsonFalse]
        /\ last.calls = <<"get_item">>
        /\ ~last.mutated
        /\ store[Body.file_name.s] = NoItem

\* a lower-case "get" of the unwritten doc1.pdf has answered
C3_Witness ==
    /\ IsGet /\ ~last.fault /\ ~writer[Body.file_name.s].applied
    /\ Body.operation = PyStr(<<"g", "e", "t">>)
    /\ Status = 200

\* C4: a request without file_name is answered 400 with an error field,
\* whatever its operation, and no store call is made.
C4_MissingFileName ==
    (last.done /\ ~last.event.malformed /\ Body.file_name = Missing) =>
        /\ Status = 400
        /\ HasError
        /\ last.calls = <<>>

\* neither GET nor UPDATE in any spelling (absent and non-string included)
NotGetOrUpdate(body) == ~OperationIs(body, GET) /\ ~OperationIs(body, UPDATE)

\* the characters of the operation as the caller sent it
OperationText(body) ==
    CASE body.operation.t = "str" -> body.operation.s
      [] body.operation.t = "int" -> <<ToString(body.operation.n)>>
      [] OTHER -> <<>>

\* the error text is 'Invalid operation: <value>. Use GET or UPDATE', the
\* value compared without regard to case
NamesOperation ==
    LET text == last.response.body.error.text
    IN  /\ Len(text) >= 2
        /\ text[1] = "Invalid operation: "
        /\ Upper(SubSeq(text, 2, Len(text) - 1)) = Upper(OperationText(Body))

\* C5: a request with a file_name whose operation is neither GET nor UPDATE
\* in any spelling is answered 400 with an error naming the operation, and
\* a GET or UPDATE in any spelling is never rejected as an invalid operation.
C5_InvalidOperation ==
    (last.done /\ ~last.event.malformed /\ CarriesFileName(Body)) =>
        IF NotGetOrUpdate(Body)
        THEN Status = 400 /\ HasError /\ NamesOperation
        ELSE ~(Status = 400 /\ NamesOperation)

\* C6: an UPDATE (any spelling) with a file_name and without new_state is
\* answered 400 with an error field, makes no store call and leaves the
\* record as it was.
C6_MissingNewState ==
    (last.done /\ ~last.event.malformed /\ OperationIs(Body, UPDATE)
       /\ Body.file_name # Missing /\ Body.new_state = Missing) =>
        /\ Status = 400
        /\ HasError
        /\ last.calls = <<>>
        /\ ~last.mutated

\* an "Update" without new_state was refused while doc1.pdf holds a record
C6_Witness ==
    /\ last.done /\ ~last.event.malformed
    /\ Body.operation = PyStr(<<"U", "p", "d", "a", "t", "e">>)
    /\ CarriesFileName(Body) /\ Body.new_state = Missing
    /\ Status = 400
    /\ store["doc1.pdf"] # NoItem

\* C7: a store failure is answered 500 with an error field, and an
\* invocation that answers 500 has left the store as it found it.
C7_FailureLeavesStore ==
    last.done =>
        /\ last.fault => (Status = 500 /\ HasError)
        /\ Status = 500 => ~last.mutated

StringMetadata(body) ==
    \A k \in DOMAIN Get(body, "metadata", PyDict(EmptyMap)).m :
        Get(body, "metadata", PyDict(EmptyMap)).m[k].t = "str"

C10_ValidationFirst ==
    last.done =>
        /\ Len(last.calls) <= 1
        /\ Status = 400 => (last.calls = <<>> /\ ~last.mutated)
        /\ last.mutated => last.calls = <<"update_item">>
        /\ last.calls # <<>> =>
              /\ ~last.event.malformed
              /\ CarriesFileName(Body)
              /\ \/ last.calls = <<"get_item">> /\ OperationIs(Body, GET)
                 \/ /\ last.calls = <<"update_item">>
                    /\ OperationIs(Body, UPDATE)
                    /\ Truthy(Get(Body, "new_state", PyNone))

\* an UPDATE was refused with 400 while doc1.pdf holds a record
C10_Witness ==
    /\ last.done /\ ~last.event.malformed
    /\ OperationIs(Body, UPDATE)
    /\ Status = 400
    /\ last.calls = <<>>
    /\ store["doc1.pdf"] # NoItem

====
